---- MODULE Spec2Model ----
(***************************************************************************)
(* The in-memory upload tracking store of gofs (inMemoryDB): a Go map from *)
(* upload key to inMemoryRecord guarded by an embedded sync.RWMutex, used  *)
(* by several goroutines at once.  A record is a struct value whose parts  *)
(* field is a Go map, i.e. a reference: copies of the record (the local    *)
(* copy AddPart works on, the UploadStatus value GetStatus returns) share  *)
(* the part map with the stored record.  The model keeps the part maps in  *)
(* a heap indexed by map identity so that this sharing is visible.         *)
(***************************************************************************)
EXTENDS Integers, Sequences, FiniteSets, TLC

\* ------------------------------------------------------------------ bounds
NumProcs == 2                       \* goroutines calling the store
Procs == 1..NumProcs

\* ------------------------------------------------------------------ inputs
Keys == {"", "a"}

WriteOps == {"CreateUpload", "AddPart", "CompleteUpload", "AbortUpload"}
ReadOps == {"GetUploadID", "GetParts", "GetStatus"}

\* the calls the callers make: the operations and the arguments they draw from
\* (createKeys for CreateUpload, which checks its key; keys for the other six)
Inputs ==
    [ops |-> WriteOps \cup ReadOps,
     createKeys |-> Keys,
     keys |-> {"a"},
     uploadIDs |-> {"u1", "u2"},
     totalParts |-> {0, 1, 2, 10000, 10001},
     partNumbers |-> {1, 2},
     eTags |-> {"t1", "t2"}]

\* the calls of the callers that go on to read the status they were given
StatusInputs ==
    [ops |-> {"CreateUpload", "AddPart", "CompleteUpload", "GetStatus"},
     createKeys |-> {"a"},
     keys |-> {"a"},
     uploadIDs |-> {"u1"},
     totalParts |-> {1, 2},
     partNumbers |-> {1, 2},
     eTags |-> {"t1"}]

\* the callers that keep the UploadStatus value GetStatus returned
StatusKeepers == {1}

\* the methods of UploadStatus
StatusAccessors == {"IsCompleted", "TotalParts", "CompletedPartsNum"}

\* what a caller learns from each of them
StatusField(name) ==
    CASE name = "IsCompleted" -> "isCompleted"
      [] name = "TotalParts" -> "totalParts"
      [] name = "CompletedPartsNum" -> "completedPartsNum"

\* ------------------------------------------------------------- error values
ErrNone == "nil"
ErrNotFound == "ErrNotFound"
ErrAlreadyExists == "ErrAlreadyExists"
ErrFileKeyEmpty == "ErrFileKeyEmpty"
ErrInvalidTotalParts == "ErrInvalidTotalParts"

MaxTotalParts == 10000

\* ---------------------------------------------------------------- the state
VARIABLES
    records,      \* db.records: a Go map, here a function whose domain is the keys present
    heap,         \* the part maps, by map identity: heap[m] is a function part number -> inMemoryPart
    writerHeld,   \* RWMutex: a goroutine holds the write lock
    readerCount,  \* RWMutex: number of goroutines holding the read lock
    pc,           \* per goroutine: "idle", "cs", "write", "reading", "done", and blocked
                  \* in Lock() or RLock(): "wwait", "drain", "rwait"
    op,           \* per goroutine: the call in progress and its arguments
    lk,           \* per goroutine: the lock its call holds: "none", "w", "r"
    rec,          \* per goroutine: AddPart's local variable `record`
    res,          \* per goroutine: the value the call is about to return
    status,       \* per goroutine: the UploadStatus value it got from GetStatus
    seen,         \* per goroutine: what its accessor calls on that value have returned
    abs,          \* history: the store as the sequential specification sees it
    lin,          \* history: per goroutine, the result the sequential specification gives
    lastLife,     \* history: per key, the last successful CreateUpload/CompleteUpload/AbortUpload
    call,         \* Interactor: the method called last and its arguments
    sent,         \* Interactor: the requests that call sent to the object store
    ret           \* Interactor: what that call returned

storeVars == <<records, heap, writerHeld, readerCount, pc, op, lk, rec, res, status, seen, abs, lin,
              lastLife>>
interactorVars == <<call, sent, ret>>
vars == <<records, heap, writerHeld, readerCount, pc, op, lk, rec, res, status, seen, abs, lin, lastLife,
          call, sent, ret>>

\* ------------------------------------------------------------ plain values
NoOp == [name |-> "none", key |-> "", uploadID |-> "", totalParts |-> 0,
         partNumber |-> 0, eTag |-> ""]
NoRecord == [uploadID |-> "", totalParts |-> 0, parts |-> 0]
NoResult == [err |-> "none", val |-> ""]
NoParts == <<>>
\* no accessor has been called on the status held
NoneSeen == <<>>
\* an io.ReadSeeker: nil, or a file of some size whose Seek may fail
ReadSeeker(isNil, size, seek) == [isNil |-> isNil, size |-> size, seek |-> seek]
NoFile == ReadSeeker(TRUE, 0, "ok")
NoCall == [name |-> "none", filename |-> "", uploadID |-> "", data |-> "", partNum |-> 0,
           totalParts |-> 0, completedParts |-> <<>>, file |-> NoFile, partSize |-> 0]

\* identities for part maps: one per stored record and per copy a goroutine can hold
MapIds == 1..(Cardinality(Keys) + 2 * NumProcs)

Min(S) == CHOOSE x \in S : \A y \in S : x <= y

\* ------------------------------------------------------------------ Go maps
Has(m, k) == k \in DOMAIN m

MapPut(m, k, v) == [x \in DOMAIN m \cup {k} |-> IF x = k THEN v ELSE m[x]]

MapDelete(m, k) == [x \in DOMAIN m \ {k} |-> m[x]]

MapLen(m) == Cardinality(DOMAIN m)

\* the slices `for _, part := range m` can build: every order of the values
RECURSIVE RangeOrders(_)
RangeOrders(m) ==
    IF DOMAIN m = {} THEN {<<>>}
    ELSE UNION {{<<m[k]>> \o s : s \in RangeOrders([x \in DOMAIN m \ {k} |-> m[x]])} :
                    k \in DOMAIN m}

\* ------------------------------------------------------ garbage collection
\* map identities a record or a goroutine still refers to
Referenced(recs, lrec, st) ==
    {recs[k].parts : k \in DOMAIN recs}
        \cup {lrec[p].parts : p \in Procs}
        \cup {st[p].parts : p \in Procs}

\* unreachable part maps are reclaimed
Collect(h, recs, lrec, st) ==
    [m \in MapIds |-> IF m \in Referenced(recs, lrec, st) THEN h[m] ELSE NoParts]

\* make(map[int64]inMemoryPart): a map no one refers to yet
NewMap == Min(MapIds \ Referenced(records, rec, status))

\* --------------------------------------------------------------- RWMutex
CanLockNoReaders == ~writerHeld
CanLockNoWriter == readerCount = 0
CanLock == ~writerHeld /\ readerCount = 0

CanRLock == ~writerHeld

\* ----------------------------------------------------------- the accessors
inMemoryPart(partNumber, eTag) == [partNumber |-> partNumber, eTag |-> eTag]

inMemoryRecordNoID(uploadID, totalParts, parts) ==
    [uploadID |-> "", totalParts |-> totalParts, parts |-> parts]
inMemoryRecord(uploadID, totalParts, parts) ==
    [uploadID |-> uploadID, totalParts |-> totalParts, parts |-> parts]

\* h is the memory as the caller sees it
IsCompletedOffByOne(h, record) == MapLen(h[record.parts]) + 1 = record.totalParts
IsCompleted(h, record) == MapLen(h[record.parts]) = record.totalParts

TotalParts(record) == record.totalParts

CompletedPartsNumTotal(h, record) == record.totalParts
CompletedPartsNum(h, record) == MapLen(h[record.parts])

\* what a caller reads off an UploadStatus value
StatusView(h, record) ==
    [isCompleted |-> IsCompleted(h, record),
     totalParts |-> TotalParts(record),
     completedPartsNum |-> CompletedPartsNum(h, record)]

\* ------------------------------------------------ sequential specification
\* The store of spec.md section 4.1 as plain values: key -> [uploadID, totalParts,
\* parts], parts a function part number -> integrity tag.  SeqApply gives the
\* store and the result of one operation applied at one instant.
SeqResult(err, val) == [err |-> err, val |-> val]

SeqPut(f, x, v) == [y \in DOMAIN f \cup {x} |-> IF y = x THEN v ELSE f[y]]

SeqRemove(f, x) == [y \in DOMAIN f \ {x} |-> f[y]]

SeqStatus(r) ==
    [isCompleted |-> (Cardinality(DOMAIN r.parts) = r.totalParts),
     totalParts |-> r.totalParts,
     completedPartsNum |-> Cardinality(DOMAIN r.parts)]

SeqApply(s, o) ==
    CASE o.name = "CreateUpload" ->
            IF o.key = "" THEN [store |-> s, res |-> SeqResult(ErrFileKeyEmpty, "")]
            ELSE IF o.totalParts <= 0 \/ o.totalParts > 10000
                THEN [store |-> s, res |-> SeqResult(ErrInvalidTotalParts, "")]
            ELSE IF o.key \in DOMAIN s
                THEN [store |-> s, res |-> SeqResult(ErrAlreadyExists, "")]
            ELSE [store |-> SeqPut(s, o.key, [uploadID |-> o.uploadID,
                                               totalParts |-> o.totalParts,
                                               parts |-> <<>>]),
                  res |-> SeqResult(ErrNone, "")]
      [] o.name = "AddPart" ->
            IF o.key \notin DOMAIN s
            THEN [store |-> s, res |-> SeqResult(ErrNotFound, "")]
            ELSE [store |-> SeqPut(s, o.key,
                        [s[o.key] EXCEPT !.parts = SeqPut(@, o.partNumber, o.eTag)]),
                  res |-> SeqResult(ErrNone, "")]
      [] o.name = "CompleteUpload" ->
            IF o.key \notin DOMAIN s
            THEN [store |-> s, res |-> SeqResult(ErrNotFound, "")]
            ELSE [store |-> SeqRemove(s, o.key), res |-> SeqResult(ErrNone, "")]
      [] o.name = "AbortUpload" ->
            [store |-> SeqRemove(s, o.key), res |-> SeqResult(ErrNone, "")]
      [] o.name = "GetUploadID" ->
            IF o.key \notin DOMAIN s
            THEN [store |-> s, res |-> SeqResult(ErrNotFound, "")]
            ELSE [store |-> s, res |-> SeqResult(ErrNone, s[o.key].uploadID)]
      [] o.name = "GetParts" ->
            IF o.key \notin DOMAIN s
            THEN [store |-> s, res |-> SeqResult(ErrNotFound, "")]
            ELSE [store |-> s,
                  res |-> SeqResult(ErrNone,
                            {<<n, s[o.key].parts[n]>> : n \in DOMAIN s[o.key].parts})]
      [] o.name = "GetStatus" ->
            IF o.key \notin DOMAIN s
            THEN [store |-> s, res |-> SeqResult(ErrNotFound, "")]
            ELSE [store |-> s, res |-> SeqResult(ErrNone, SeqStatus(s[o.key]))]

\* ---------------------------------------------------------------- Init
Init ==
    /\ records = <<>>
    /\ heap = [m \in MapIds |-> NoParts]
    /\ writerHeld = FALSE
    /\ readerCount = 0
    /\ pc = [p \in Procs |-> "idle"]
    /\ op = [p \in Procs |-> NoOp]
    /\ lk = [p \in Procs |-> "none"]
    /\ rec = [p \in Procs |-> NoRecord]
    /\ res = [p \in Procs |-> NoResult]
    /\ status = [p \in Procs |-> NoRecord]
    /\ seen = [p \in Procs |-> NoneSeen]
    /\ abs = <<>>
    /\ lin = [p \in Procs |-> NoResult]
    /\ lastLife = [k \in Keys |-> "none"]
    /\ call = NoCall
    /\ sent = <<>>
    /\ ret = NoResult

\* ------------------------------------------------------------ the calls
Call(name, key, uploadID, totalParts, partNumber, eTag) ==
    [name |-> name, key |-> key, uploadID |-> uploadID, totalParts |-> totalParts,
     partNumber |-> partNumber, eTag |-> eTag]

CreateCalls(in) ==
    {Call("CreateUpload", k, u, n, 0, "") :
        k \in in.createKeys, u \in in.uploadIDs, n \in in.totalParts}

WriteCalls(in) ==
    {o \in CreateCalls(in)
        \cup {Call("AddPart", k, "", 0, n, t) :
                k \in in.keys, n \in in.partNumbers, t \in in.eTags}
        \cup {Call(name, k, "", 0, 0, "") :
                name \in {"CompleteUpload", "AbortUpload"}, k \in in.keys} :
      o.name \in in.ops}

ReadCalls(in) ==
    {Call(name, k, "", 0, 0, "") : name \in ReadOps \cap in.ops, k \in in.keys}

Result(err, val) == [err |-> err, val |-> val]

\* CreateUpload's argument checks, made before the lock is taken
ValidateNoKeyCheck(key, totalParts) ==
    IF totalParts <= 0 \/ totalParts > MaxTotalParts THEN ErrInvalidTotalParts
    ELSE ErrNone
ValidateNoUpperBound(key, totalParts) ==
    IF key = "" THEN ErrFileKeyEmpty
    ELSE IF totalParts <= 0 THEN ErrInvalidTotalParts
    ELSE ErrNone
Validate(key, totalParts) ==
    IF key = "" THEN ErrFileKeyEmpty
    ELSE IF totalParts <= 0 \/ totalParts > MaxTotalParts THEN ErrInvalidTotalParts
    ELSE ErrNone

\* the last successful lifecycle operation per key, after o has produced result r
LifeAfter(life, o, r) ==
    IF r.err = ErrNone /\ o.name \in {"CreateUpload", "CompleteUpload", "AbortUpload"}
    THEN [life EXCEPT ![o.key] = o.name]
    ELSE life

\* the step at which p's call takes effect: the sequential specification moves too
Linearize(p, o, r) ==
    /\ abs' = SeqApply(abs, o).store
    /\ lin' = [lin EXCEPT ![p] = SeqApply(abs, o).res]
    /\ lastLife' = LifeAfter(lastLife, o, r)

\* db.records[key] = record
StoreRecordNoop(recs, key, record) == recs
StoreRecord(recs, key, record) == MapPut(recs, key, record)

\* delete(db.records, key): a no-op when the key is absent
DeleteRecordNoop(recs, key) == recs
DeleteRecord(recs, key) == MapDelete(recs, key)

\* ------------------------------------------------------------ CreateUpload
\* lines 36-41: invalid arguments return before db.Lock()
CreateUploadReject(p, in) ==
    /\ pc[p] = "idle"
    /\ \E o \in CreateCalls(in) :
        /\ Validate(o.key, o.totalParts) # ErrNone
        /\ op' = [op EXCEPT ![p] = o]
        /\ res' = [res EXCEPT ![p] = Result(Validate(o.key, o.totalParts), "")]
        /\ Linearize(p, o, Result(Validate(o.key, o.totalParts), ""))
    /\ pc' = [pc EXCEPT ![p] = "done"]
    /\ UNCHANGED <<records, heap, writerHeld, readerCount, lk, rec, status, seen, call, sent, ret>>

\* a write operation is entered and db.Lock() returns (entering the call touches
\* no shared state, so the call and the acquisition are one step; a caller whose
\* Lock() blocks is a goroutine for which this step is not yet enabled)
Lock(p, in) ==
    /\ pc[p] = "idle"
    /\ CanLock
    /\ \E o \in WriteCalls(in) :
        /\ o.name = "CreateUpload" => Validate(o.key, o.totalParts) = ErrNone
        /\ op' = [op EXCEPT ![p] = o]
    /\ writerHeld' = TRUE
    /\ lk' = [lk EXCEPT ![p] = "w"]
    /\ pc' = [pc EXCEPT ![p] = "cs"]
    /\ UNCHANGED <<records, heap, readerCount, rec, res, status, seen, abs, lin, lastLife, call, sent, ret>>

\* a read operation is entered and db.RLock() returns
RLock(p, in) ==
    /\ pc[p] = "idle"
    /\ CanRLock
    /\ \E o \in ReadCalls(in) : op' = [op EXCEPT ![p] = o]
    /\ readerCount' = readerCount + 1
    /\ lk' = [lk EXCEPT ![p] = "r"]
    /\ pc' = [pc EXCEPT ![p] = "cs"]
    /\ UNCHANGED <<records, heap, writerHeld, rec, res, status, seen, abs, lin, lastLife, call, sent, ret>>

\* lines 47-58: the record is inserted unless the key is present
InsertRecordUnchecked(recs, key, record) == StoreRecord(recs, key, record)
InsertRecord(recs, key, record) ==
    IF Has(recs, key) THEN recs ELSE StoreRecord(recs, key, record)

\* lines 46-60, under the write lock
CreateUpload(p) ==
    /\ pc[p] = "cs"
    /\ op[p].name = "CreateUpload"
    /\ LET o == op[p]
           r == IF Has(records, o.key) THEN Result(ErrAlreadyExists, "") ELSE Result(ErrNone, "")
           record == inMemoryRecord(o.uploadID, o.totalParts, NewMap)
       IN /\ records' = InsertRecord(records, o.key, record)
          /\ heap' = IF Has(records, o.key) THEN heap
                     ELSE [heap EXCEPT ![record.parts] = NoParts]
          /\ res' = [res EXCEPT ![p] = r]
          /\ Linearize(p, o, r)
    /\ pc' = [pc EXCEPT ![p] = "done"]
    /\ UNCHANGED <<writerHeld, readerCount, op, lk, rec, status, seen, call, sent, ret>>

\* ----------------------------------------------------------------- AddPart
\* lines 69-72: record, ok := db.records[key]
AddPartLookup(p) ==
    /\ pc[p] = "cs"
    /\ op[p].name = "AddPart"
    /\ IF Has(records, op[p].key)
       THEN /\ rec' = [rec EXCEPT ![p] = records[op[p].key]]
            /\ pc' = [pc EXCEPT ![p] = "write"]
            /\ UNCHANGED <<res, abs, lin, lastLife>>
       ELSE /\ res' = [res EXCEPT ![p] = Result(ErrNotFound, "")]
            /\ pc' = [pc EXCEPT ![p] = "done"]
            /\ Linearize(p, op[p], Result(ErrNotFound, ""))
            /\ UNCHANGED rec
    /\ UNCHANGED <<records, heap, writerHeld, readerCount, op, lk, status, seen, call, sent, ret>>

\* line 74: record.parts[partNumber] = inMemoryPart{...}, on the map the record refers to
PutPartReplacing(h, record, partNumber, eTag) ==
    [h EXCEPT ![record.parts] = MapPut(NoParts, partNumber, inMemoryPart(partNumber, eTag))]
PutPartShifted(h, record, partNumber, eTag) ==
    [h EXCEPT ![record.parts] = MapPut(@, partNumber + 1, inMemoryPart(partNumber + 1, eTag))]
PutPartKeepFirst(h, record, partNumber, eTag) ==
    IF Has(h[record.parts], partNumber) THEN h
    ELSE [h EXCEPT ![record.parts] = MapPut(@, partNumber, inMemoryPart(partNumber, eTag))]
PutPart(h, record, partNumber, eTag) ==
    [h EXCEPT ![record.parts] = MapPut(@, partNumber, inMemoryPart(partNumber, eTag))]

\* lines 74-81
AddPartWrite(p) ==
    /\ pc[p] = "write"
    /\ LET o == op[p]
           record == rec[p]
       IN /\ records' = StoreRecord(records, o.key, record)
          /\ rec' = [rec EXCEPT ![p] = NoRecord]
          /\ heap' = Collect(PutPart(heap, record, o.partNumber, o.eTag), records', rec', status)
          /\ res' = [res EXCEPT ![p] = Result(ErrNone, "")]
          /\ Linearize(p, o, Result(ErrNone, ""))
    /\ pc' = [pc EXCEPT ![p] = "done"]
    /\ UNCHANGED <<writerHeld, readerCount, op, lk, status, seen, call, sent, ret>>

\* lines 65-82 as one sequential call on a store st = [records, heap]: what the
\* two steps above do between db.Lock() and the deferred db.Unlock()
AddPart(st, key, partNumber, eTag) ==
    IF ~Has(st.records, key) THEN st
    ELSE [records |-> StoreRecord(st.records, key, st.records[key]),
          heap |-> PutPart(st.heap, st.records[key], partNumber, eTag)]

\* ---------------------------------------------------------- CompleteUpload
\* lines 91-101, under the write lock
CompleteUpload(p) ==
    /\ pc[p] = "cs"
    /\ op[p].name = "CompleteUpload"
    /\ LET o == op[p]
           r == IF Has(records, o.key) THEN Result(ErrNone, "") ELSE Result(ErrNotFound, "")
       IN /\ records' = IF Has(records, o.key) THEN DeleteRecord(records, o.key) ELSE records
          /\ heap' = Collect(heap, records', rec, status)
          /\ res' = [res EXCEPT ![p] = r]
          /\ Linearize(p, o, r)
    /\ pc' = [pc EXCEPT ![p] = "done"]
    /\ UNCHANGED <<writerHeld, readerCount, op, lk, rec, status, seen, call, sent, ret>>

\* ------------------------------------------------------------- AbortUpload
\* lines 111-115, under the write lock
AbortUpload(p) ==
    /\ pc[p] = "cs"
    /\ op[p].name = "AbortUpload"
    /\ records' = DeleteRecord(records, op[p].key)
    /\ heap' = Collect(heap, records', rec, status)
    /\ res' = [res EXCEPT ![p] = Result(ErrNone, "")]
    /\ Linearize(p, op[p], Result(ErrNone, ""))
    /\ pc' = [pc EXCEPT ![p] = "done"]
    /\ UNCHANGED <<writerHeld, readerCount, op, lk, rec, status, seen, call, sent, ret>>

\* --------------------------------------------------------------- the reads
\* lines 125-130, under the read lock
GetUploadID(p) ==
    /\ pc[p] = "cs"
    /\ op[p].name = "GetUploadID"
    /\ LET o == op[p]
           r == IF Has(records, o.key) THEN Result(ErrNone, records[o.key].uploadID)
                ELSE Result(ErrNotFound, "")
       IN /\ res' = [res EXCEPT ![p] = r]
          /\ Linearize(p, o, r)
    /\ pc' = [pc EXCEPT ![p] = "done"]
    /\ UNCHANGED <<records, heap, writerHeld, readerCount, op, lk, rec, status, seen, call, sent, ret>>

\* lines 139-149, under the read lock; the slice is in map iteration order
GetParts(p) ==
    /\ pc[p] = "cs"
    /\ op[p].name = "GetParts"
    /\ LET o == op[p]
       IN IF Has(records, o.key)
          THEN \E parts \in RangeOrders(heap[records[o.key].parts]) :
                  /\ res' = [res EXCEPT ![p] = Result(ErrNone, parts)]
                  /\ Linearize(p, o, Result(ErrNone, parts))
          ELSE /\ res' = [res EXCEPT ![p] = Result(ErrNotFound, "")]
               /\ Linearize(p, o, Result(ErrNotFound, ""))
    /\ pc' = [pc EXCEPT ![p] = "done"]
    /\ UNCHANGED <<records, heap, writerHeld, readerCount, op, lk, rec, status, seen, call, sent, ret>>

\* lines 157-162, under the read lock; the value returned is a copy of the record
\* struct, whose parts field still refers to the stored record's map
GetStatus(p) ==
    /\ pc[p] = "cs"
    /\ op[p].name = "GetStatus"
    /\ LET o == op[p]
           r == IF Has(records, o.key) THEN Result(ErrNone, records[o.key])
                ELSE Result(ErrNotFound, "")
       IN /\ res' = [res EXCEPT ![p] = r]
          /\ Linearize(p, o, r)
    /\ pc' = [pc EXCEPT ![p] = "done"]
    /\ UNCHANGED <<records, heap, writerHeld, readerCount, op, lk, rec, status, seen, call, sent, ret>>

\* ------------------------------------------------------------------ return
\* the deferred Unlock/RUnlock runs and the call returns; a caller in `keepers`
\* keeps the UploadStatus a successful GetStatus gave it, through its later calls,
\* until its next GetStatus; what an accessor returned is the caller's from then on
DeferredUnlockOnSuccess(held, r) == IF r.err = ErrNone THEN held ELSE "none"
DeferredUnlock(held, r) == held

\* the readers blocked in RLock() that a writer's Unlock() lets in
Woken(released) == IF released = "w" THEN {q \in Procs : pc[q] = "rwait"} ELSE {}

Return(p, keepers) ==
    /\ pc[p] = "done"
    /\ LET released == DeferredUnlock(lk[p], res[p])
       IN /\ writerHeld' = IF released = "w" THEN FALSE ELSE writerHeld
          /\ readerCount' = IF released = "r" THEN readerCount - 1
                            ELSE readerCount + Cardinality(Woken(released))
          /\ pc' = [q \in Procs |-> IF q = p THEN "idle"
                                    ELSE IF q \in Woken(released) THEN "cs" ELSE pc[q]]
          /\ lk' = [q \in Procs |-> IF q = p THEN (IF released = lk[p] THEN "none" ELSE lk[p])
                                    ELSE IF q \in Woken(released) THEN "r" ELSE lk[q]]
    /\ status' = IF op[p].name # "GetStatus" THEN status
                 ELSE IF res[p].err = ErrNone /\ p \in keepers
                 THEN [status EXCEPT ![p] = res[p].val]
                 ELSE [status EXCEPT ![p] = NoRecord]
    /\ seen' = IF op[p].name = "GetStatus" THEN [seen EXCEPT ![p] = NoneSeen]
               ELSE IF op[p].name \in StatusAccessors
               THEN [seen EXCEPT ![p] = MapPut(@, StatusField(op[p].name), res[p].val)]
               ELSE seen
    /\ heap' = Collect(heap, records, rec, status')
    /\ op' = [op EXCEPT ![p] = NoOp]
    /\ res' = [res EXCEPT ![p] = NoResult]
    /\ lin' = [lin EXCEPT ![p] = NoResult]
    /\ UNCHANGED <<records, rec, abs, lastLife, call, sent, ret>>

\* ------------------------------------- the accessors of a returned status
\* the memory a goroutine may see when it reads without the lock: the heap as it
\* is, or as it will be once an AddPart that is writing has written
VisibleHeaps ==
    {heap} \cup {PutPart(heap, rec[q], op[q].partNumber, op[q].eTag) :
                    q \in {x \in Procs : pc[x] = "write"}}

\* a caller that holds an UploadStatus calls one of its methods (no lock is taken)
StatusCall(p) ==
    /\ pc[p] = "idle"
    /\ status[p] # NoRecord
    /\ \E name \in StatusAccessors : op' = [op EXCEPT ![p] = [NoOp EXCEPT !.name = name]]
    /\ pc' = [pc EXCEPT ![p] = "reading"]
    /\ UNCHANGED <<records, heap, writerHeld, readerCount, lk, rec, res, status, seen, abs, lin, lastLife, call, sent, ret>>

\* lines 178-180: record.IsCompleted() on the held value, len(record.parts) read as
\* the memory is at the moment of this call
StatusIsCompleted(p) ==
    /\ pc[p] = "reading"
    /\ op[p].name = "IsCompleted"
    /\ \E h \in VisibleHeaps :
        res' = [res EXCEPT ![p] = Result(ErrNone, IsCompleted(h, status[p]))]
    /\ pc' = [pc EXCEPT ![p] = "done"]
    /\ UNCHANGED <<records, heap, writerHeld, readerCount, op, lk, rec, status, seen, abs, lin, lastLife, call, sent, ret>>

\* lines 183-185: record.TotalParts() on the held value; the part map is not read
StatusTotalParts(p) ==
    /\ pc[p] = "reading"
    /\ op[p].name = "TotalParts"
    /\ res' = [res EXCEPT ![p] = Result(ErrNone, TotalParts(status[p]))]
    /\ pc' = [pc EXCEPT ![p] = "done"]
    /\ UNCHANGED <<records, heap, writerHeld, readerCount, op, lk, rec, status, seen, abs, lin, lastLife, call, sent, ret>>

\* lines 203-205: record.CompletedPartsNum() on the held value, a len(record.parts)
\* of its own
StatusCompletedPartsNum(p) ==
    /\ pc[p] = "reading"
    /\ op[p].name = "CompletedPartsNum"
    /\ \E h \in VisibleHeaps :
        res' = [res EXCEPT ![p] = Result(ErrNone, CompletedPartsNum(h, status[p]))]
    /\ pc' = [pc EXCEPT ![p] = "done"]
    /\ UNCHANGED <<records, heap, writerHeld, readerCount, op, lk, rec, status, seen, abs, lin, lastLife, call, sent, ret>>

\* -------------------------------------------------------------------- Next
\* the store under callers that use each result as it is returned
Next ==
    \E p \in Procs :
        \/ CreateUploadReject(p, Inputs)
        \/ Lock(p, Inputs)
        \/ RLock(p, Inputs)
        \/ CreateUpload(p)
        \/ AddPartLookup(p)
        \/ AddPartWrite(p)
        \/ CompleteUpload(p)
        \/ AbortUpload(p)
        \/ GetUploadID(p)
        \/ GetParts(p)
        \/ GetStatus(p)
        \/ Return(p, {})

Spec == Init /\ [][Next]_vars

\* the store under callers that keep the UploadStatus value and read it later
NextStatus ==
    \E p \in Procs :
        \/ Lock(p, StatusInputs)
        \/ RLock(p, StatusInputs)
        \/ CreateUpload(p)
        \/ AddPartLookup(p)
        \/ AddPartWrite(p)
        \/ CompleteUpload(p)
        \/ GetStatus(p)
        \/ Return(p, StatusKeepers)
        \/ StatusCall(p)
        \/ StatusIsCompleted(p)
        \/ StatusTotalParts(p)
        \/ StatusCompletedPartsNum(p)

SpecStatus == Init /\ [][NextStatus]_vars

TypeOK ==
    /\ DOMAIN records \subseteq Keys
    /\ writerHeld \in BOOLEAN
    /\ readerCount \in 0..NumProcs
    /\ \A p \in Procs :
        pc[p] \in {"idle", "wwait", "drain", "rwait", "cs", "write", "reading", "done"}

\* ------------------------------------------------ blocking in the RWMutex
\* The store under callers whose Lock() and RLock() may block.  sync.RWMutex:
\* Lock() first takes the writers' mutex, then announces itself to the readers
\* and waits until the readers that hold the lock have left; RLock() blocks
\* while a writer has announced itself; the writer's Unlock() lets in every
\* reader blocked meanwhile and then releases the writers' mutex.
LiveInputs ==
    [ops |-> WriteOps \cup ReadOps,
     createKeys |-> Keys,
     keys |-> {"a"},
     uploadIDs |-> {"u1"},
     totalParts |-> {0, 1},
     partNumbers |-> {1},
     eTags |-> {"t1"}]

\* a writer holds the writers' mutex: it has the lock or waits for the readers to leave
WriterPending == writerHeld \/ \E q \in Procs : pc[q] = "drain"

\* the writers' mutex is taken: the lock is held at once if no reader holds it
TakeWriterMutex(p) ==
    IF readerCount = 0
    THEN /\ writerHeld' = TRUE
         /\ lk' = [lk EXCEPT ![p] = "w"]
         /\ pc' = [pc EXCEPT ![p] = "cs"]
    ELSE /\ pc' = [pc EXCEPT ![p] = "drain"]
         /\ UNCHANGED <<writerHeld, lk>>

\* a write operation is entered and calls db.Lock()
LockEnter(p, in) ==
    /\ pc[p] = "idle"
    /\ \E o \in WriteCalls(in) :
        /\ o.name = "CreateUpload" => Validate(o.key, o.totalParts) = ErrNone
        /\ op' = [op EXCEPT ![p] = o]
    /\ IF WriterPending
       THEN /\ pc' = [pc EXCEPT ![p] = "wwait"]
            /\ UNCHANGED <<writerHeld, lk>>
       ELSE TakeWriterMutex(p)
    /\ UNCHANGED <<records, heap, readerCount, rec, res, status, seen, abs, lin, lastLife, call, sent, ret>>

\* a writer blocked on the writers' mutex gets it
LockAcquire(p) ==
    /\ pc[p] = "wwait"
    /\ ~WriterPending
    /\ TakeWriterMutex(p)
    /\ UNCHANGED <<records, heap, readerCount, op, rec, res, status, seen, abs, lin, lastLife, call, sent, ret>>

\* the last reader has left: the waiting writer holds the lock
LockDrained(p) ==
    /\ pc[p] = "drain"
    /\ readerCount = 0
    /\ writerHeld' = TRUE
    /\ lk' = [lk EXCEPT ![p] = "w"]
    /\ pc' = [pc EXCEPT ![p] = "cs"]
    /\ UNCHANGED <<records, heap, readerCount, op, rec, res, status, seen, abs, lin, lastLife, call, sent, ret>>

\* a read operation is entered and calls db.RLock()
RLockEnter(p, in) ==
    /\ pc[p] = "idle"
    /\ \E o \in ReadCalls(in) : op' = [op EXCEPT ![p] = o]
    /\ IF WriterPending
       THEN /\ pc' = [pc EXCEPT ![p] = "rwait"]
            /\ UNCHANGED <<readerCount, lk>>
       ELSE /\ readerCount' = readerCount + 1
            /\ lk' = [lk EXCEPT ![p] = "r"]
            /\ pc' = [pc EXCEPT ![p] = "cs"]
    /\ UNCHANGED <<records, heap, writerHeld, rec, res, status, seen, abs, lin, lastLife, call, sent, ret>>

\* the steps of a call between its lock and its return
Body(p) ==
    \/ CreateUpload(p)
    \/ AddPartLookup(p)
    \/ AddPartWrite(p)
    \/ CompleteUpload(p)
    \/ AbortUpload(p)
    \/ GetUploadID(p)
    \/ GetParts(p)
    \/ GetStatus(p)

NextLive ==
    \E p \in Procs :
        \/ CreateUploadReject(p, LiveInputs)
        \/ LockEnter(p, LiveInputs)
        \/ LockAcquire(p)
        \/ LockDrained(p)
        \/ RLockEnter(p, LiveInputs)
        \/ Body(p)
        \/ Return(p, {})

\* a goroutine that can run does run; the writers' mutex is handed to a writer
\* that waits for it (sync.Mutex does not let newcomers overtake it for ever);
\* nothing obliges a caller to call
Fairness ==
    \A p \in Procs :
        /\ WF_vars(Body(p))
        /\ WF_vars(Return(p, {}))
        /\ WF_vars(LockDrained(p))
        /\ SF_vars(LockAcquire(p))

SpecLive == Init /\ [][NextLive]_vars /\ Fairness

\* ------------------------------------------------- callers racing to create
\* The store under callers that all call CreateUpload for the same key, with
\* different upload ids and part counts, and may block in Lock().
RaceInputs ==
    [ops |-> {"CreateUpload"},
     createKeys |-> {"a"},
     keys |-> {"a"},
     uploadIDs |-> {"u1", "u2"},
     totalParts |-> {1, 2},
     partNumbers |-> {1},
     eTags |-> {"t1"}]

NextCreateRace ==
    \E p \in Procs :
        \/ LockEnter(p, RaceInputs)
        \/ LockAcquire(p)
        \/ CreateUpload(p)
        \/ Return(p, {})

SpecCreateRace == Init /\ [][NextCreateRace]_vars

\* ========================================================== the Interactor
\* The storage Interactor stands between the upload handlers and the object
\* store (S3).  It keeps no state of its own between calls; what a call does is
\* the requests it sends to the object store and the value it returns.  The
\* object store and the SDK's params.Validate() are outside the repository:
\* each may fail or succeed.

MaxListLen == 3                     \* longest part list given to CompleteMultipartUpload
MaxParts == 10000

ErrMissedUploadID == "ErrMissedUploadID"
ErrNoCompletedParts == "ErrNoCompletedParts"
ErrTotalParts == "ErrTotalParts"
ErrPartNum == "ErrPartNum"
ErrAbortInvalidParams == "storage.abortMultipartUpload: invalid params"
ErrAbortFailed == "storage.abortMultipartUpload"
ErrCompleteInvalidParams == "storage.completeMultipartUpload: invalid params"
ErrCompleteFailed == "storage.completeMultipartUpload"
ErrUploadPartInvalidParams == "storage.uploadPart: invalid params"
ErrUploadPartFailed == "storage.uploadPart"

\* the arguments the Interactor is called with
InteractorInputs ==
    [filenames |-> {"f"},
     uploadIDs |-> {"", "u1"},
     data |-> {"d"},
     partNums |-> {-1, 0, 1, 2, 3, 10000, 10001},
     totalParts |-> {-1, 0, 1, 2, 10000, 10001},
     partNumbers |-> {1, 2, 3},
     eTags |-> {"t1", "t2"}]

\* the part lists CompleteMultipartUpload is given: any order, repeats included
PartLists(in) ==
    UNION {[1..n -> {inMemoryPart(k, t) : k \in in.partNumbers, t \in in.eTags}] :
              n \in 0..MaxListLen}

\* a request as the object store receives it
S3Request(api, key, uploadId, partNumber, body, parts) ==
    [api |-> api, Key |-> key, UploadId |-> uploadId, PartNumber |-> partNumber,
     Body |-> body, Parts |-> parts]

\* the struct the Interactor returns for an uploaded part
completedPart(etag, partNumber) == [etag |-> etag, partNumber |-> partNumber]

\* the less function given to sort.Slice
PartNumberLess(a, b) == a.partNumber < b.partNumber

\* sort.Slice(completedParts, less): some permutation of the slice in which no
\* element is less than one before it (the sort is not stable)
SortSliceUnsorted(s) == {s}
SortSlice(s) ==
    {t \in {[i \in 1..Len(s) |-> s[f[i]]] : f \in Permutations(1..Len(s))} :
        \A i, j \in 1..Len(t) : i < j => ~PartNumberLess(t[j], t[i])}

\* the conversion of a CompletedPart to the SDK's s3.CompletedPart
s3CompletedPart(part) == [ETag |-> part.eTag, PartNumber |-> part.partNumber]

\* the argument checks of UploadPart, in the order the code makes them
UploadPartCheckNoPartNum(uploadID, partNum, totalParts) ==
    IF uploadID = "" THEN ErrMissedUploadID
    ELSE IF totalParts = 0 \/ totalParts > MaxParts THEN ErrTotalParts
    ELSE ErrNone
UploadPartCheck(uploadID, partNum, totalParts) ==
    IF uploadID = "" THEN ErrMissedUploadID
    ELSE IF totalParts = 0 \/ totalParts > MaxParts THEN ErrTotalParts
    ELSE IF partNum < 1 \/ partNum > totalParts THEN ErrPartNum
    ELSE ErrNone

\* the argument check of AbortMultipartUpload
AbortCheck(uploadID) == IF uploadID = "" THEN ErrMissedUploadID ELSE ErrNone

\* the argument checks of CompleteMultipartUpload, in the order the code makes them
CompleteCheckNoEmptyList(uploadID, completedParts) ==
    IF uploadID = "" THEN ErrMissedUploadID ELSE ErrNone
CompleteCheck(uploadID, completedParts) ==
    IF uploadID = "" THEN ErrMissedUploadID
    ELSE IF Len(completedParts) = 0 THEN ErrNoCompletedParts
    ELSE ErrNone

AbortMultipartUpload(in) ==
    /\ call = NoCall
    /\ \E filename \in in.filenames, uploadID \in in.uploadIDs :
        /\ call' = [NoCall EXCEPT !.name = "AbortMultipartUpload", !.filename = filename,
                                  !.uploadID = uploadID]
        /\ IF AbortCheck(uploadID) # ErrNone
           THEN sent' = <<>> /\ ret' = Result(AbortCheck(uploadID), "")
           ELSE LET params == S3Request("AbortMultipartUpload", filename, uploadID, 0, "", <<>>)
                IN \/ sent' = <<>> /\ ret' = Result(ErrAbortInvalidParams, "")
                   \/ sent' = <<params>> /\ ret' = Result(ErrAbortFailed, "")
                   \/ sent' = <<params>> /\ ret' = Result(ErrNone, "")
    /\ UNCHANGED storeVars

CompleteMultipartUpload(in) ==
    /\ call = NoCall
    /\ \E filename \in in.filenames, uploadID \in in.uploadIDs, completedParts \in PartLists(in) :
        /\ call' = [NoCall EXCEPT !.name = "CompleteMultipartUpload", !.filename = filename,
                                  !.uploadID = uploadID, !.completedParts = completedParts]
        /\ IF CompleteCheck(uploadID, completedParts) # ErrNone
           THEN sent' = <<>> /\ ret' = Result(CompleteCheck(uploadID, completedParts), "")
           ELSE \E sorted \in SortSlice(completedParts) :
                LET parts == [i \in 1..Len(sorted) |-> s3CompletedPart(sorted[i])]
                    params == S3Request("CompleteMultipartUpload", filename, uploadID, 0, "", parts)
                IN \/ sent' = <<>> /\ ret' = Result(ErrCompleteInvalidParams, "")
                   \/ sent' = <<params>> /\ ret' = Result(ErrCompleteFailed, "")
                   \/ sent' = <<params>> /\ ret' = Result(ErrNone, "")
    /\ UNCHANGED storeVars

UploadPart(in) ==
    /\ call = NoCall
    /\ \E filename \in in.filenames, uploadID \in in.uploadIDs, data \in in.data,
          partNum \in in.partNums, totalParts \in in.totalParts :
        /\ call' = [NoCall EXCEPT !.name = "UploadPart", !.filename = filename,
                                  !.uploadID = uploadID, !.data = data,
                                  !.partNum = partNum, !.totalParts = totalParts]
        /\ IF UploadPartCheck(uploadID, partNum, totalParts) # ErrNone
           THEN sent' = <<>> /\ ret' = Result(UploadPartCheck(uploadID, partNum, totalParts), "")
           ELSE LET params == S3Request("UploadPart", filename, uploadID, partNum, data, <<>>)
                IN \/ sent' = <<>> /\ ret' = Result(ErrUploadPartInvalidParams, "")
                   \/ sent' = <<params>> /\ ret' = Result(ErrUploadPartFailed, "")
                   \/ /\ sent' = <<params>>
                      /\ \E etag \in in.eTags :
                            ret' = Result(ErrNone, completedPart(etag, partNum))
    /\ UNCHANGED storeVars

\* the caller takes what the call returned; the Interactor keeps nothing of it
InteractorReturn ==
    /\ call # NoCall
    /\ call' = NoCall
    /\ sent' = <<>>
    /\ ret' = NoResult
    /\ UNCHANGED storeVars

NextInteractor ==
    \/ AbortMultipartUpload(InteractorInputs)
    \/ CompleteMultipartUpload(InteractorInputs)
    \/ UploadPart(InteractorInputs)
    \/ InteractorReturn

SpecInteractor == Init /\ [][NextInteractor]_vars

\* ========================================================= GetMaxFileParts
\* The package function that tells the caller how many parts a file makes.
MaxFileSize == 12                   \* every file size up to this one is tried
MaxPartSize == 5                    \* every part size up to this one is tried

ErrInvalidReader == "storage.GetMaxFileParts: ErrInvalidReader"
ErrGetFileSize == "storage.GetMaxFileParts: storage.GetFileSize"
PanicDivideByZero == "panic: runtime error: integer divide by zero"

\* the files and part sizes GetMaxFileParts is called with: the small ones, those
\* around the limit of 10000 parts, and the sizes of the repository's tests
FilePartsInputs ==
    [files |-> {NoFile}
          \cup {ReadSeeker(FALSE, n, "ok") :
                   n \in (0..MaxFileSize) \cup {5121, 6144, 9999, 10000, 10001, 20001,
                                                5242880, 104857601}}
          \cup {ReadSeeker(FALSE, n, e) : n \in {0, 7}, e \in {"end fails", "start fails"}},
     partSizes |-> {-2, -1, 0} \cup (1..MaxPartSize) \cup {1024, 1048576, 5242880}]

\* Go's integer division and remainder: the quotient is truncated toward zero
Abs(a) == IF a < 0 THEN -a ELSE a
GoDiv(a, b) ==
    IF (a < 0) = (b < 0) THEN Abs(a) \div Abs(b) ELSE -(Abs(a) \div Abs(b))
GoRem(a, b) == a - b * GoDiv(a, b)

\* GetFileSize: Seek to the end for the size, then back to the start
GetFileSize(file) ==
    IF file.isNil THEN Result(ErrInvalidReader, 0)
    ELSE IF file.seek # "ok" THEN Result(ErrGetFileSize, 0)
    ELSE Result(ErrNone, file.size)

\* lines 300-303: fileSize / partSize, one more if there is a remainder
MaxFilePartsFloor(fileSize, partSize) == GoDiv(fileSize, partSize)
MaxFileParts(fileSize, partSize) ==
    IF GoRem(fileSize, partSize) # 0
    THEN GoDiv(fileSize, partSize) + 1
    ELSE GoDiv(fileSize, partSize)

GetMaxFileParts(in) ==
    /\ call = NoCall
    /\ \E file \in in.files, partSize \in in.partSizes :
        /\ call' = [NoCall EXCEPT !.name = "GetMaxFileParts", !.file = file,
                                  !.partSize = partSize]
        /\ ret' = IF file.isNil THEN Result(ErrInvalidReader, 0)
                  ELSE IF GetFileSize(file).err # ErrNone THEN Result(ErrGetFileSize, 0)
                  ELSE IF partSize = 0 THEN Result(PanicDivideByZero, 0)
                  ELSE Result(ErrNone, MaxFileParts(GetFileSize(file).val, partSize))
    /\ sent' = <<>>
    /\ UNCHANGED storeVars

NextFileParts ==
    \/ GetMaxFileParts(FilePartsInputs)
    \/ InteractorReturn

SpecFileParts == Init /\ [][NextFileParts]_vars

\* ================================================================== claims
Exists(k) == Has(records, k)

\* the part map of the record stored for k
PartsOf(k) == heap[records[k].parts]

\* the (part number, tag) pairs stored for k
StoredParts(k) == {<<n, PartsOf(k)[n].eTag>> : n \in DOMAIN PartsOf(k)}

\* p is between taking and releasing the store lock
InCS(p) == lk[p] # "none"

Returning(p, name) == pc[p] = "done" /\ op[p].name = name

AllIdle == \A p \in Procs : pc[p] = "idle"

\* the store with every part map dereferenced, as plain values
Deref ==
    [k \in DOMAIN records |->
        [uploadID |-> records[k].uploadID,
         totalParts |-> records[k].totalParts,
         parts |-> [n \in DOMAIN PartsOf(k) |-> PartsOf(k)[n].eTag]]]

\* what the caller of p's call gets, read at the moment of return
Returned(p) ==
    IF res[p].err # ErrNone THEN res[p]
    ELSE IF op[p].name = "GetParts"
        THEN [err |-> ErrNone,
              val |-> {<<res[p].val[i].partNumber, res[p].val[i].eTag>> :
                          i \in 1..Len(res[p].val)}]
    ELSE IF op[p].name = "GetStatus"
        THEN [err |-> ErrNone, val |-> StatusView(heap, res[p].val)]
    ELSE res[p]

\* C1: no lost updates.  Once AddPart calls with part numbers 1..N have all
\* returned on a record created with totalParts = N (no AddPart on the key still
\* in flight), the record exists, its status reports completedPartsNum = N and
\* isCompleted, and it holds every pair (i, tag_i); and every AddPart that found
\* the record returns nil.
C1_NoLostUpdates ==
    /\ \A k \in Keys :
        (/\ Has(abs, k)
         /\ DOMAIN abs[k].parts = 1..abs[k].totalParts
         /\ \A p \in Procs : ~(op[p].name = "AddPart" /\ op[p].key = k))
        => /\ Exists(k)
           /\ CompletedPartsNum(heap, records[k]) = abs[k].totalParts
           /\ IsCompleted(heap, records[k])
           /\ \A i \in 1..abs[k].totalParts : <<i, abs[k].parts[i]>> \in StoredParts(k)
    /\ \A p \in Procs :
        Returning(p, "AddPart") /\ lin[p].err = ErrNone => res[p].err = ErrNone

\* two goroutines have added parts 1 and 2 of a two-part upload and returned
C1_Witness ==
    /\ AllIdle
    /\ Has(abs, "a")
    /\ abs["a"].totalParts = 2
    /\ DOMAIN abs["a"].parts = {1, 2}
    /\ abs["a"].parts[1] # abs["a"].parts[2]

\* C2: reader/writer exclusion.  While a write operation is inside its critical
\* section no other goroutine is inside a critical section of the store.
C2_Exclusion ==
    \A p \in Procs, q \in Procs :
        p # q /\ InCS(p) /\ op[p].name \in WriteOps => ~InCS(q)

\* a writer is inside its critical section while another goroutine is mid-call
C2_Witness ==
    \E p \in Procs, q \in Procs :
        /\ p # q
        /\ pc[p] = "write"
        /\ writerHeld
        /\ pc[q] = "done"

\* C2, second part: two read operations are inside their critical sections at once
C2_ReadersShare ==
    \E p \in Procs, q \in Procs :
        /\ p # q
        /\ InCS(p) /\ op[p].name \in ReadOps
        /\ InCS(q) /\ op[q].name \in ReadOps
        /\ readerCount >= 2

\* C3: atomicity.  The store always equals the store of the sequential
\* specification, in which each call took effect at one instant between its Lock
\* and its Unlock, and every call returns what the sequential specification
\* returned at that instant; so a read racing with CreateUpload(k, u, n) returns
\* NotFound or the fully initialised record.
C3_Atomic ==
    /\ Deref = abs
    /\ \A k \in DOMAIN records : \A n \in DOMAIN PartsOf(k) : PartsOf(k)[n].partNumber = n
    /\ \A p \in Procs :
        pc[p] = "done" /\ op[p].name \in WriteOps \cup ReadOps =>
            /\ Returned(p) = lin[p]
            /\ op[p].name = "GetParts" /\ res[p].err = ErrNone =>
                    Len(res[p].val) = Cardinality(Returned(p).val)

\* a GetStatus returns the freshly created record (u2, 2 parts declared, none
\* received) while another goroutine's rejected CreateUpload is returning
C3_Witness ==
    \E p \in Procs, q \in Procs :
        /\ p # q
        /\ Returning(p, "GetStatus")
        /\ res[p].err = ErrNone
        /\ Returned(p).val = [isCompleted |-> FALSE, totalParts |-> 2, completedPartsNum |-> 0]
        /\ res[p].val.uploadID = "u2"
        /\ Returning(q, "CreateUpload")

\* C4: every read of a record's part set happens under the store lock: no
\* goroutine reads a part map through a returned UploadStatus (IsCompleted,
\* CompletedPartsNum) while an AddPart is writing that map.
C4_ReadsUnderLock ==
    \A p \in Procs, q \in Procs :
        (pc[p] = "reading" /\ op[p].name \in {"IsCompleted", "CompletedPartsNum"})
            => ~(pc[q] = "write" /\ rec[q].parts = status[p].parts)

\* C5: record lifecycle.  A record exists for k iff the last successful
\* CreateUpload/CompleteUpload/AbortUpload on k was a CreateUpload; an AddPart
\* that takes effect after a CompleteUpload or AbortUpload returns NotFound and
\* leaves the record absent.
C5_Lifecycle ==
    /\ \A k \in Keys : Exists(k) <=> lastLife[k] = "CreateUpload"
    /\ \A p \in Procs :
        Returning(p, "AddPart") /\ lastLife[op[p].key] \in {"CompleteUpload", "AbortUpload"}
            => res[p].err = ErrNotFound /\ ~Exists(op[p].key)

\* an AddPart on a completed upload is returning NotFound
C5_Witness ==
    \E p \in Procs :
        /\ Returning(p, "AddPart")
        /\ lastLife[op[p].key] = "CompleteUpload"
        /\ res[p].err = ErrNotFound

\* C6: creation fields are fixed.  While the record created by CreateUpload(k, u, n)
\* exists, GetUploadID(k) returns u and the status GetStatus(k) returns has
\* totalParts n, and the stored record keeps both.
C6_CreationFieldsFixed ==
    /\ \A k \in DOMAIN records :
        Has(abs, k) /\ records[k].uploadID = abs[k].uploadID
                    /\ records[k].totalParts = abs[k].totalParts
    /\ \A p \in Procs :
        /\ Returning(p, "GetUploadID") /\ res[p].err = ErrNone
                => res[p].val = abs[op[p].key].uploadID
        /\ Returning(p, "GetStatus") /\ res[p].err = ErrNone
                => TotalParts(res[p].val) = abs[op[p].key].totalParts

\* GetUploadID returns u2 for a record that has received a part since its creation
C6_Witness ==
    \E p \in Procs :
        /\ Returning(p, "GetUploadID")
        /\ res[p] = [err |-> ErrNone, val |-> "u2"]
        /\ DOMAIN PartsOf(op[p].key) # {}

\* C7 as stated: every part number held in a record's part set lies in
\* 1..totalParts of that record.
C7_PartsInRange ==
    \A k \in DOMAIN records : DOMAIN PartsOf(k) \subseteq 1..records[k].totalParts

\* C7 amended: the part numbers a record holds are exactly those passed to the
\* successful AddPart calls since its creation, so they lie in 1..totalParts
\* whenever all of those did; AddPart itself does not check the range.
C7_PartsAreThoseAdded ==
    \A k \in DOMAIN records :
        /\ Has(abs, k)
        /\ DOMAIN PartsOf(k) = DOMAIN abs[k].parts
        /\ DOMAIN abs[k].parts \subseteq 1..abs[k].totalParts
                => DOMAIN PartsOf(k) \subseteq 1..records[k].totalParts

\* a record of two parts holds both, each added with an in-range part number
C7_Witness ==
    /\ Exists("a")
    /\ records["a"].totalParts = 2
    /\ DOMAIN PartsOf("a") = {1, 2}

\* C8: the status GetStatus(k) returns reports completedPartsNum equal to the
\* number of distinct part numbers added since the record was created, and
\* isCompleted iff completedPartsNum = totalParts.
C8_StatusCounts ==
    \A p \in Procs :
        Returning(p, "GetStatus") /\ res[p].err = ErrNone =>
            /\ Has(abs, op[p].key)
            /\ CompletedPartsNum(heap, res[p].val) = Cardinality(DOMAIN abs[op[p].key].parts)
            /\ IsCompleted(heap, res[p].val)
                    <=> (CompletedPartsNum(heap, res[p].val) = TotalParts(res[p].val))

\* GetStatus reports 1 of 2 parts, not completed
C8_Witness ==
    \E p \in Procs :
        /\ Returning(p, "GetStatus")
        /\ res[p].err = ErrNone
        /\ Returned(p).val = [isCompleted |-> FALSE, totalParts |-> 2, completedPartsNum |-> 1]

\* C9: last write wins per part number.  An AddPart that writes a part number the
\* record already holds returns nil, leaves the number of parts unchanged and
\* leaves exactly one entry for that number, carrying the new tag, in whatever
\* GetParts returns; and every stored tag is that of the AddPart on its part
\* number that took effect last.
C9_OverwriteStep ==
    \A p \in Procs :
        (/\ pc[p] = "write"
         /\ pc'[p] = "done"
         /\ Exists(op[p].key)
         /\ Has(PartsOf(op[p].key), op[p].partNumber))
        => /\ res'[p].err = ErrNone
           /\ Exists(op[p].key)'
           /\ MapLen(PartsOf(op[p].key))' = MapLen(PartsOf(op[p].key))
           /\ \A s \in RangeOrders(PartsOf(op[p].key))' :
                \E i \in 1..Len(s) :
                    /\ s[i] = inMemoryPart(op[p].partNumber, op[p].eTag)
                    /\ \A j \in 1..Len(s) : s[j].partNumber = op[p].partNumber => j = i

C9_LastTagStored ==
    \A k \in DOMAIN records :
        \A n \in DOMAIN PartsOf(k) :
            Has(abs, k) /\ Has(abs[k].parts, n) /\ PartsOf(k)[n].eTag = abs[k].parts[n]

C9_LastWriteWins == []C9_LastTagStored /\ [][C9_OverwriteStep]_vars

\* an AddPart is about to overwrite a part stored with another tag
C9_Witness ==
    \E p \in Procs :
        /\ pc[p] = "write"
        /\ Exists(op[p].key)
        /\ Has(PartsOf(op[p].key), op[p].partNumber)
        /\ PartsOf(op[p].key)[op[p].partNumber].eTag # op[p].eTag

\* C10: CompleteUpload on an existing record returns nil and removes the record,
\* whatever parts it holds; once a CompleteUpload was the last successful
\* lifecycle operation on k, GetStatus, GetParts and GetUploadID return NotFound.
C10_CompleteStep ==
    \A p \in Procs :
        (/\ pc[p] = "cs"
         /\ op[p].name = "CompleteUpload"
         /\ pc'[p] = "done"
         /\ Exists(op[p].key))
        => res'[p].err = ErrNone /\ ~Exists(op[p].key)'

C10_GoneAfterComplete ==
    \A p \in Procs :
        (/\ pc[p] = "done"
         /\ op[p].name \in ReadOps
         /\ lastLife[op[p].key] = "CompleteUpload")
        => res[p].err = ErrNotFound

C10_CompleteRemoves == []C10_GoneAfterComplete /\ [][C10_CompleteStep]_vars

\* a GetStatus on a completed upload is returning NotFound
C10_Witness ==
    \E p \in Procs :
        /\ Returning(p, "GetStatus")
        /\ lastLife[op[p].key] = "CompleteUpload"
        /\ res[p].err = ErrNotFound

\* the errors spec.md calls InvalidArgument
InvalidArgument == {ErrFileKeyEmpty, ErrInvalidTotalParts}

\* p's call runs its body in this step
BodyStep(p, name) == pc[p] = "cs" /\ op[p].name = name /\ pc'[p] # "cs"

\* C11: AbortUpload returns nil in every store state; it removes the record for k
\* if there is one and leaves the store as it is if there is none, and a second
\* AbortUpload(k) changes nothing the first one left.
C11_AbortStep ==
    \A p \in Procs :
        BodyStep(p, "AbortUpload") =>
            /\ pc'[p] = "done"
            /\ res'[p] = Result(ErrNone, "")
            /\ ~Exists(op[p].key)'
            /\ \A k \in DOMAIN records \ {op[p].key} :
                    Exists(k)' /\ records'[k] = records[k] /\ PartsOf(k)' = PartsOf(k)
            /\ ~Exists(op[p].key) => records' = records /\ heap' = heap
            /\ DeleteRecord(records', op[p].key) = records'

C11_AbortNeverFails ==
    \A p \in Procs : Returning(p, "AbortUpload") => res[p].err = ErrNone /\ ~Exists(op[p].key)

C11_AbortIdempotent == []C11_AbortNeverFails /\ [][C11_AbortStep]_vars

\* a second AbortUpload in a row is about to run on a key the first one removed
C11_Witness ==
    \E p \in Procs :
        /\ pc[p] = "cs"
        /\ op[p].name = "AbortUpload"
        /\ lastLife[op[p].key] = "AbortUpload"
        /\ ~Exists(op[p].key)

\* C12: AddPart, GetUploadID, GetParts, GetStatus and CompleteUpload on a key
\* with no record (never created, or completed or aborted since) return NotFound.
C12_NotFoundStep ==
    \A p \in Procs :
        (/\ pc[p] = "cs"
         /\ op[p].name \in {"AddPart", "GetUploadID", "GetParts", "GetStatus", "CompleteUpload"}
         /\ lastLife[op[p].key] # "CreateUpload"
         /\ pc'[p] # "cs")
        => pc'[p] = "done" /\ res'[p] = Result(ErrNotFound, "")

C12_NotFound == [][C12_NotFoundStep]_vars

\* a CompleteUpload is returning NotFound for a key that was aborted
C12_Witness ==
    \E p \in Procs :
        /\ Returning(p, "CompleteUpload")
        /\ res[p].err = ErrNotFound
        /\ lastLife[op[p].key] = "AbortUpload"

\* C13: CreateUpload(k, u, n) with valid arguments, on a key whose last successful
\* lifecycle operation was a CreateUpload, returns AlreadyExists.
C13_AlreadyExistsStep ==
    \A p \in Procs :
        BodyStep(p, "CreateUpload") /\ lastLife[op[p].key] = "CreateUpload"
            => pc'[p] = "done" /\ res'[p] = Result(ErrAlreadyExists, "")

C13_AlreadyExists == [][C13_AlreadyExistsStep]_vars

\* a second CreateUpload on the key, with other arguments, is returning
\* AlreadyExists
C13_Witness ==
    \E p \in Procs :
        /\ Returning(p, "CreateUpload")
        /\ res[p].err = ErrAlreadyExists
        /\ Exists(op[p].key)
        /\ op[p].uploadID # records[op[p].key].uploadID
        /\ op[p].totalParts # records[op[p].key].totalParts

\* C14 as stated: CreateUpload fails with InvalidArgument for every totalParts
\* <= 0 and every totalParts > 10000, and always succeeds for totalParts = 1 and
\* totalParts = 10000.
C14_BoundsAlwaysSucceed ==
    \A p \in Procs :
        Returning(p, "CreateUpload") =>
            /\ op[p].totalParts <= 0 \/ op[p].totalParts > 10000
                    => res[p].err \in InvalidArgument
            /\ op[p].totalParts \in {1, 10000} => res[p].err = ErrNone

\* C14 amended: totalParts <= 0 or > 10000 is rejected with InvalidArgument
\* before the lock is taken; totalParts = 1 and totalParts = 10000 (any value in
\* 1..10000) pass the check, and the call then fails only with FileKeyEmpty for
\* an empty key or with AlreadyExists for a key that has a record.
C14_TotalPartsCheck ==
    \A p \in Procs :
        Returning(p, "CreateUpload") =>
            /\ op[p].totalParts <= 0 \/ op[p].totalParts > 10000
                    => res[p].err \in InvalidArgument /\ lk[p] = "none"
            /\ op[p].totalParts \in 1..10000 =>
                    /\ res[p].err # ErrInvalidTotalParts
                    /\ res[p].err = ErrFileKeyEmpty <=> op[p].key = ""
                    /\ res[p].err = ErrAlreadyExists =>
                            Exists(op[p].key) /\ lin[p].err = ErrAlreadyExists
                    /\ res[p].err = ErrNone =>
                            /\ Exists(op[p].key)
                            /\ records[op[p].key].totalParts = op[p].totalParts

\* a CreateUpload with totalParts = 10000 is returning nil
C14_Witness ==
    \E p \in Procs :
        /\ Returning(p, "CreateUpload")
        /\ op[p].totalParts = 10000
        /\ res[p].err = ErrNone

\* C15: CreateUpload with an empty key fails with InvalidArgument whatever the
\* other arguments and the store state, and the store never holds a record for
\* the empty key.
C15_EmptyKeyRejected ==
    /\ ~Exists("")
    /\ \A p \in Procs :
        Returning(p, "CreateUpload") /\ op[p].key = ""
            => res[p].err \in InvalidArgument /\ lk[p] = "none"

\* a CreateUpload with an empty key and a valid totalParts is returning
\* FileKeyEmpty while the store holds a record
C15_Witness ==
    \E p \in Procs :
        /\ Returning(p, "CreateUpload")
        /\ op[p].key = ""
        /\ op[p].totalParts = 1
        /\ res[p].err = ErrFileKeyEmpty
        /\ Exists("a")

\* C16: a successful CreateUpload installs a record with an empty part set
\* (completedPartsNum 0, GetParts empty, isCompleted false), also on a key whose
\* earlier record was completed or aborted.
C16_FreshRecordEmptyStep ==
    \A p \in Procs :
        BodyStep(p, "CreateUpload") /\ res'[p].err = ErrNone =>
            /\ Exists(op[p].key)'
            /\ CompletedPartsNum(heap, records[op[p].key])' = 0
            /\ ~IsCompleted(heap, records[op[p].key])'
            /\ RangeOrders(PartsOf(op[p].key))' = {<<>>}

C16_FreshRecordEmpty == [][C16_FreshRecordEmptyStep]_vars

\* a CreateUpload is about to succeed on a key whose earlier upload was completed
C16_Witness ==
    \E p \in Procs :
        /\ pc[p] = "cs"
        /\ op[p].name = "CreateUpload"
        /\ lastLife[op[p].key] = "CompleteUpload"
        /\ ~Exists(op[p].key)

\* ---------------------------------------------------------------------- C17
\* how often the part with number k and tag t occurs in a list of CompletedParts
GivenCount(list, k, t) ==
    Cardinality({i \in 1..Len(list) : list[i].partNumber = k /\ list[i].eTag = t})

\* how often it occurs in the Parts of a request to the object store
SentCount(parts, k, t) ==
    Cardinality({i \in 1..Len(parts) : parts[i].PartNumber = k /\ parts[i].ETag = t})

\* C17: the part list CompleteMultipartUpload sends to the object store is in
\* ascending part-number order and holds exactly the parts it was given, each
\* with its own tag, whatever the order they were given in.
C17_SentInOrder ==
    (call.name = "CompleteMultipartUpload" /\ sent # <<>>) =>
        LET given == call.completedParts
            parts == sent[1].Parts
        IN /\ Len(sent) = 1
           /\ sent[1].api = "CompleteMultipartUpload"
           /\ Len(parts) = Len(given)
           /\ \A i \in 1..(Len(parts) - 1) : parts[i].PartNumber <= parts[i + 1].PartNumber
           /\ \A k \in InteractorInputs.partNumbers, t \in InteractorInputs.eTags :
                 SentCount(parts, k, t) = GivenCount(given, k, t)

\* parts given as 2 then 1, as GetParts may list them, are sent as 1 then 2
C17_Witness ==
    /\ call.name = "CompleteMultipartUpload"
    /\ call.completedParts = <<inMemoryPart(2, "t2"), inMemoryPart(1, "t1")>>
    /\ sent # <<>>
    /\ sent[1].Parts = <<[ETag |-> "t1", PartNumber |-> 1], [ETag |-> "t2", PartNumber |-> 2]>>
    /\ ret.err = ErrNone

\* ---------------------------------------------------------------------- C18
\* the arguments with which UploadPart may send a chunk
C18_ArgumentsValid ==
    /\ call.uploadID # ""
    /\ 1 <= call.totalParts /\ call.totalParts <= 10000
    /\ 1 <= call.partNum /\ call.partNum <= call.totalParts

\* C18: UploadPart sends a chunk to the object store only if uploadID is not
\* empty, 1 <= totalParts <= 10000 and 1 <= partNum <= totalParts; with any other
\* arguments it returns an error and sends nothing.
C18_UploadPartGuards ==
    call.name = "UploadPart" =>
        /\ sent # <<>> =>
              /\ C18_ArgumentsValid
              /\ Len(sent) = 1
              /\ sent[1].api = "UploadPart"
              /\ sent[1].UploadId = call.uploadID
              /\ sent[1].PartNumber = call.partNum
        /\ ~C18_ArgumentsValid => (ret.err # ErrNone /\ sent = <<>>)

\* the last part of the largest upload allowed is sent
C18_Witness ==
    /\ call.name = "UploadPart"
    /\ call.partNum = 10000
    /\ call.totalParts = 10000
    /\ sent # <<>>
    /\ sent[1].PartNumber = 10000
    /\ ret.err = ErrNone

\* ---------------------------------------------------------------------- C19
\* the store as it is
Store == [records |-> records, heap |-> heap]

\* the part numbers and tags the commutation is checked for
C19_PartNumbers == {1, 2, 3}
C19_Tags == {"t1", "t2"}

\* from the store as it is between calls, the two orders of two adds leave the
\* same store, hence the same status and the same parts for GetParts to list
\* (every value the store takes it also has with no call in progress)
C19_Commute ==
    \A k \in DOMAIN records, i \in C19_PartNumbers, j \in C19_PartNumbers :
        (AllIdle /\ i < j) =>
            \A a \in C19_Tags, b \in C19_Tags :
                LET ij == AddPart(AddPart(Store, k, i, a), k, j, b)
                    ji == AddPart(AddPart(Store, k, j, b), k, i, a)
                IN /\ ij = ji
                   /\ StatusView(ij.heap, ij.records[k]) = StatusView(ji.heap, ji.records[k])
                   /\ ij.heap[ij.records[k].parts][i].eTag = a
                   /\ ij.heap[ij.records[k].parts][j].eTag = b

\* an AddPart call of the store does to it what AddPart does to Store
C19_AddPartStep ==
    \A p \in Procs :
        (op[p].name = "AddPart" /\ pc[p] \in {"cs", "write"} /\ pc'[p] = "done") =>
            LET st == AddPart(Store, op[p].key, op[p].partNumber, op[p].eTag)
            IN /\ records' = st.records
               /\ \A k \in DOMAIN records' :
                     heap'[records'[k].parts] = st.heap[st.records[k].parts]

\* C19: AddPart calls with different part numbers commute: on an existing record
\* the two orders of AddPart(k, i, a) and AddPart(k, j, b), i # j, leave the same
\* store state.  Every permutation of adds with distinct part numbers is a
\* product of such exchanges, so it leaves the same parts and status too.
C19_AddPartCommutes == []C19_Commute /\ [][C19_AddPartStep]_vars

\* parts 1 and 2 are stored with different tags; the add of part 1, made after
\* that of part 2, is returning
C19_Witness ==
    \E p \in Procs :
        /\ Returning(p, "AddPart")
        /\ op[p].partNumber = 1
        /\ res[p].err = ErrNone
        /\ Exists(op[p].key)
        /\ DOMAIN PartsOf(op[p].key) = {1, 2}
        /\ PartsOf(op[p].key)[1].eTag # PartsOf(op[p].key)[2].eTag

\* ---------------------------------------------------------------------- C20
\* a call is pending: invoked and not yet returned
Pending(p) == pc[p] # "idle"

\* a pending call that cannot take a step as things are
Blocked(p) ==
    \/ pc[p] = "wwait" /\ WriterPending
    \/ pc[p] = "drain" /\ readerCount # 0
    \/ pc[p] = "rwait"

\* a goroutine that is not in a call holds no lock, and the lock is held by
\* the goroutines inside critical sections only
C20_LocksReleased ==
    /\ \A p \in Procs : pc[p] = "idle" => lk[p] = "none"
    /\ writerHeld <=> \E p \in Procs : lk[p] = "w"
    /\ readerCount = Cardinality({p \in Procs : lk[p] = "r"})
    /\ \A p \in Procs : lk[p] # "none" => pc[p] \in {"cs", "write", "done"}

\* in no state are all the pending calls blocked
C20_NotAllBlocked ==
    (\E p \in Procs : Pending(p)) => \E p \in Procs : Pending(p) /\ ~Blocked(p)

\* every call invoked returns
C20_Returns == \A p \in Procs : Pending(p) ~> ~Pending(p)

\* C20: deadlock freedom.  Under fair scheduling every store operation invoked
\* returns, having released the lock it took whether it succeeded or failed,
\* and in no reachable state are all the pending operations blocked.
C20_DeadlockFree == []C20_LocksReleased /\ []C20_NotAllBlocked /\ C20_Returns

\* a writer waits in Lock() for a reader to leave while another call is
\* returning an error under the lock
C20_Witness ==
    \E p \in Procs, q \in Procs :
        /\ pc[p] = "drain"
        /\ pc[q] = "done"
        /\ lk[q] = "r"
        /\ res[q].err = ErrNotFound

\* ---------------------------------------------------------------------- C21
\* C21: UploadPart with a non-empty uploadID returns ErrTotalParts for every
\* totalParts outside 1..10000 (zero, negative, above 10000), and returns
\* ErrPartNum exactly when totalParts is within 1..10000 and partNum is outside
\* 1..totalParts.
C21_ErrorsByRange ==
    (call.name = "UploadPart" /\ call.uploadID # "") =>
        LET totalOK == 1 <= call.totalParts /\ call.totalParts <= 10000
            partOK == 1 <= call.partNum /\ call.partNum <= call.totalParts
        IN /\ ~totalOK => ret.err = ErrTotalParts
           /\ ret.err = ErrPartNum <=> (totalOK /\ ~partOK)

\* what the code does return: ErrTotalParts for zero and above 10000 only; a
\* negative totalParts reaches the partNum check, which no partNum passes
C21_ErrorsAsCoded ==
    (call.name = "UploadPart" /\ call.uploadID # "") =>
        /\ ret.err = ErrTotalParts <=> (call.totalParts = 0 \/ call.totalParts > 10000)
        /\ call.totalParts < 0 => ret.err = ErrPartNum

\* ---------------------------------------------------------------------- C22
\* C22: CompleteMultipartUpload returns ErrMissedUploadID for an empty uploadID
\* and ErrNoCompletedParts for an empty part list (the uploadID is checked
\* first), AbortMultipartUpload returns ErrMissedUploadID for an empty uploadID,
\* and in each case nothing is sent to the object store.
C22_ArgumentErrors ==
    /\ (call.name = "CompleteMultipartUpload" /\ call.uploadID = "")
            => (ret.err = ErrMissedUploadID /\ sent = <<>>)
    /\ (call.name = "CompleteMultipartUpload" /\ call.uploadID # ""
                                              /\ Len(call.completedParts) = 0)
            => (ret.err = ErrNoCompletedParts /\ sent = <<>>)
    /\ (call.name = "AbortMultipartUpload" /\ call.uploadID = "")
            => (ret.err = ErrMissedUploadID /\ sent = <<>>)

\* CompleteMultipartUpload was called with an upload id and no parts
C22_Witness ==
    /\ call.name = "CompleteMultipartUpload"
    /\ call.uploadID = "u1"
    /\ call.completedParts = <<>>
    /\ ret.err = ErrNoCompletedParts
    /\ sent = <<>>

\* ---------------------------------------------------------------------- C23
\* the call is GetMaxFileParts on a readable file with a positive part size
C23_Applies ==
    /\ call.name = "GetMaxFileParts"
    /\ ~call.file.isNil
    /\ call.file.seek = "ok"
    /\ call.partSize > 0

\* C23: for every file size s >= 0 and part size p > 0 GetMaxFileParts returns,
\* without error, the ceiling of s / p: the least n with n * p >= s, which is
\* s div p when p divides s and s div p + 1 otherwise, and 0 for an empty file.
C23_Ceiling ==
    C23_Applies =>
        LET s == call.file.size
            p == call.partSize
        IN /\ ret.err = ErrNone
           /\ ret.val * p >= s
           /\ (ret.val - 1) * p < s
           /\ ret.val = IF s % p = 0 THEN s \div p ELSE (s \div p) + 1
           /\ s = 0 => ret.val = 0

\* a file of 7 bytes in parts of 3 bytes makes 3 parts
C23_Witness ==
    /\ C23_Applies
    /\ call.file.size = 7
    /\ call.partSize = 3
    /\ ret.err = ErrNone
    /\ ret.val = 3

\* ---------------------------------------------------------------------- C24
\* C24: GetMaxFileParts never returns a part count greater than 10000, for every
\* file size and every positive part size.
C24_AtMostMaxParts ==
    (call.name = "GetMaxFileParts" /\ call.partSize > 0 /\ ret.err = ErrNone)
        => ret.val <= 10000

\* ---------------------------------------------------------------------- C25
\* the steps of goroutine p that belong to a call that fails or to a read, and
\* its entering a call
C25_FailingOrReading(p) ==
    /\ pc[p] # pc'[p]
    /\ \/ pc[p] = "idle"
       \/ op[p].name \in ReadOps
       \/ pc'[p] = "done" /\ res'[p].err # ErrNone
       \/ pc[p] = "done" /\ res[p].err # ErrNone

C25_FailureStep ==
    (\E p \in Procs : C25_FailingOrReading(p)) =>
        /\ records' = records
        /\ \A k \in DOMAIN records : heap'[records[k].parts] = heap[records[k].parts]

\* C25: failure leaves the store unchanged.  Every step of a store operation
\* that returns an error (InvalidArgument, AlreadyExists, NotFound), and every
\* step of GetUploadID, GetParts and GetStatus, leaves every record's uploadID,
\* totalParts and parts as they were.
C25_FailureKeepsStore == [][C25_FailureStep]_vars

\* a CreateUpload with another uploadID is returning AlreadyExists on a record
\* that holds a part
C25_Witness ==
    \E p \in Procs :
        /\ Returning(p, "CreateUpload")
        /\ res[p].err = ErrAlreadyExists
        /\ Exists(op[p].key)
        /\ records[op[p].key].uploadID # op[p].uploadID
        /\ DOMAIN PartsOf(op[p].key) = {2}

\* ---------------------------------------------------------------------- C26
\* the CreateUpload that finds the key absent succeeds and stores its own
\* arguments; one that finds it present returns AlreadyExists and changes nothing
C26_RaceStep ==
    \A p \in Procs :
        BodyStep(p, "CreateUpload") =>
            IF ~Exists(op[p].key)
            THEN /\ res'[p].err = ErrNone
                 /\ Has(records', op[p].key)
                 /\ records'[op[p].key].uploadID = op[p].uploadID
                 /\ records'[op[p].key].totalParts = op[p].totalParts
            ELSE /\ res'[p].err = ErrAlreadyExists
                 /\ records' = records

\* among callers that only create, the record of the one that succeeded stays
C26_WinnerStays ==
    \A k \in DOMAIN records : Has(records', k) /\ records'[k] = records[k]

\* the check and the insert of one caller are not interleaved with another's
\* (one caller at a time holds the write lock); a caller returning success sees
\* its own arguments stored, and no other caller is returning success
C26_WinnerStored ==
    /\ \A p \in Procs : \A q \in Procs \ {p} : ~(lk[p] = "w" /\ lk[q] = "w")
    /\ \A p \in Procs :
            (Returning(p, "CreateUpload") /\ res[p].err = ErrNone) =>
                /\ Exists(op[p].key)
                /\ records[op[p].key].uploadID = op[p].uploadID
                /\ records[op[p].key].totalParts = op[p].totalParts
                /\ \A q \in Procs \ {p} : ~(Returning(q, "CreateUpload") /\ res[q].err = ErrNone)

\* C26: when several callers concurrently call CreateUpload for the same absent
\* key with valid arguments, exactly one returns success (the one that finds the
\* key absent), every other returns AlreadyExists, and the uploadID and
\* totalParts stored are, and stay, those of the caller that succeeded.
C26_OneCreateWins ==
    []C26_WinnerStored /\ [][C26_RaceStep]_vars /\ [][C26_WinnerStays]_vars

\* one caller is returning success while another, called with other arguments
\* for the same key, is blocked in Lock()
C26_Witness ==
    \E p \in Procs, q \in Procs :
        /\ Returning(p, "CreateUpload")
        /\ res[p].err = ErrNone
        /\ pc[q] = "wwait"
        /\ op[q].name = "CreateUpload"
        /\ op[q].key = op[p].key
        /\ op[q].uploadID # op[p].uploadID
        /\ op[q].totalParts # op[p].totalParts

\* ---------------------------------------------------------------------- C27
\* while a caller keeps the status GetStatus gave it, what the status reports
\* stays as it is
C27_SnapshotStep ==
    \A p \in Procs :
        (status[p] # NoRecord /\ status'[p] = status[p]) =>
            /\ IsCompleted(heap', status[p]) = IsCompleted(heap, status[p])
            /\ CompletedPartsNum(heap', status[p]) = CompletedPartsNum(heap, status[p])

\* C27: the status value returned by GetStatus(k) is a snapshot: the isCompleted
\* and completedPartsCount it reports are those of the moment GetStatus
\* returned, and an AddPart(k, ...) called afterwards does not change them.
C27_Snapshot == [][C27_SnapshotStep]_vars

\* ---------------------------------------------------------------------- C28
\* every part added to the record of k since its creation has a part number that
\* passes the orchestrator's check against the record's totalParts
C28_AddsChecked(k) ==
    /\ Has(abs, k)
    /\ \A n \in DOMAIN abs[k].parts :
          UploadPartCheck(abs[k].uploadID, n, abs[k].totalParts) = ErrNone

\* C28: when every AddPart on a record used a part number that passed the
\* orchestrator's check 1 <= partNum <= totalParts, the status GetStatus(k)
\* returns has isCompleted true iff every part number in 1..totalParts is present
\* in the record, and its completedPartsNum does not exceed totalParts.
C28_CompleteMeansAllParts ==
    \A p \in Procs :
        (Returning(p, "GetStatus") /\ res[p].err = ErrNone /\ C28_AddsChecked(op[p].key)) =>
            /\ IsCompleted(heap, res[p].val)
                  <=> (DOMAIN PartsOf(op[p].key) = 1..records[op[p].key].totalParts)
            /\ CompletedPartsNum(heap, res[p].val) <= TotalParts(res[p].val)

\* GetStatus reports a two-part upload completed: parts 1 and 2 are present
C28_Witness ==
    \E p \in Procs :
        /\ Returning(p, "GetStatus")
        /\ res[p].err = ErrNone
        /\ C28_AddsChecked(op[p].key)
        /\ Returned(p).val = [isCompleted |-> TRUE, totalParts |-> 2, completedPartsNum |-> 2]
        /\ DOMAIN PartsOf(op[p].key) = {1, 2}

====
